---- MODULE Spec2Model ----
(***************************************************************************)
(* Model of leads/comm/prototype.py: Service (one-shot worker lifecycle),  *)
(* Connection (delimiter framing over a stream socket) and Entity (the     *)
(* receive-dispatch loop and the on_fail wrapper).                         *)
(*                                                                         *)
(* A byte is a one-character string, a bytes object a sequence of bytes.   *)
(* A connection has two ends, each a Connection object over its own        *)
(* socket; wire[e] holds the bytes written by the other end and not yet    *)
(* returned by a recv() on e.                                              *)
(***************************************************************************)
EXTENDS Integers, Sequences, FiniteSets, TLC

\* ------------------------------------------------------------------ bounds
MaxSends == 3
MaxReceives == 3
NCallers == 3
MaxCalls == 4

\* ------------------------------------------------------- program constants
DefaultChunkSize == 512

Delim == ";"
PING == <<"P", "I", "N", "G">>
PONG == <<"P", "O", "N", "G">>
DISCONNECT == <<"d", "i", "s", "c", "o", "n", "n", "e", "c", "t">>

\* The payloads a sender is given: delimiter-free byte strings, the empty one
\* and the reserved sentinel included.
Payloads == {<<>>, PING, PONG, DISCONNECT}

Ends == {"peer", "local"}
Other(e) == IF e = "peer" THEN "local" ELSE "peer"

Min(a, b) == IF a < b THEN a ELSE b
Max(a, b) == IF a > b THEN a ELSE b

\* ------------------------------------------------------------ bytes (Python)
\* bytes.find(b";"): 0-based index of the first delimiter, -1 when absent.
Find(s) ==
    IF \E k \in 1..Len(s) : s[k] = Delim
    THEN (CHOOSE k \in 1..Len(s) : s[k] = Delim /\ \A j \in 1..(k - 1) : s[j] # Delim) - 1
    ELSE -1

\* The loop test of line 132 written as a containment test, b";" in msg.
ContainsDelim(b) == Find(b) # -1

\* bytes.endswith(b";")
EndsWithDelim(s) == Len(s) > 0 /\ s[Len(s)] = Delim

\* A slice bound as Python clamps it: negative counts from the end.
SliceIndex(i, n) == IF i < 0 THEN Max(i + n, 0) ELSE Min(i, n)
\* s[:i]
SliceTo(s, i) == SubSeq(s, 1, SliceIndex(i, Len(s)))
\* s[i:]
SliceFrom(s, i) == SubSeq(s, SliceIndex(i, Len(s)) + 1, Len(s))

VARIABLES
    sock,        \* sock[e]: "open" | "closed" (fileno() == -1)
    remainder,   \* remainder[e]: Connection._remainder
    wire,        \* wire[e]: bytes in flight towards e
    rpc,         \* rpc[e]: "idle" | "reading" (inside receive()'s while loop)
    acc,         \* acc[e]: the local msg of a receive() in its while loop
    reads,       \* reads[e]: recv() calls made by the receive() in progress
    sent,        \* sent[e]: payloads whose send() succeeded, in order
    received,    \* received[e]: what each receive() returned, in order
    log,         \* log[e]: how many calls completed on e, and the last of them
    stagePc,     \* Entity._stage on "local": "off" | "receiving" | "terminated"
    calls,       \* Callback hooks invoked by Entity._stage, in order
    entity,      \* TRUE: the service is an Entity; FALSE: a bare Service
    lock,        \* Service._lock: 0 when free, else the caller holding it
    mainThread,  \* Service._main_thread: 0 for None, else the caller that set it
    spc,         \* spc[c]: where caller c is in its start() call
    par,         \* par[c]: the parallel flag of c's start() call
    err,         \* err[c]: what c's start() call raised, "none" if nothing
    late,        \* late[c]: an earlier start() had returned when c's began
    active,      \* threads inside run(): callers (parallel=False), Worker
    created,     \* Thread objects created by _register_process
    launched,    \* Thread.start() calls made by _parallel_run
    runs,        \* times run() was entered
    failed,      \* times run() raised
    onFail,      \* times Callback.on_fail was invoked
    died         \* TRUE: an exception ended the worker thread

connVars == <<sock, remainder, wire, rpc, acc, reads, sent, received, log>>
stageVars == <<stagePc, calls>>
svcVars == <<entity, lock, mainThread, spc, par, err, late, active, created, launched,
             runs, failed, onFail, died>>
vars == <<sock, remainder, wire, rpc, acc, reads, sent, received, log, stagePc, calls,
          entity, lock, mainThread, spc, par, err, late, active, created, launched,
          runs, failed, onFail, died>>

\* ------------------------------------------------------ Connection.closed
closed(e) == sock[e] = "closed"

\* -------------------------------------------------------------- the calls
\* The n-th call completed on an end: receive, send, close or closed, with
\* the exception it raised to its caller ("none" when it returned).
Call(n, op, exc) == [n |-> n, op |-> op, exc |-> exc]
NoCall == Call(0, "none", "none")
Logged(e, op, exc) == log' = [log EXCEPT ![e] = Call(@.n + 1, op, exc)]

\* ------------------------------------------------------ receive() results
\* A result of receive(): None, or a bytes object. buf is the accumulated msg
\* the while loop exited with and nrecv the recv() calls that built it (both
\* empty for a result served from the remainder or a None).
None == [none |-> TRUE, data |-> <<>>, buf |-> <<>>, nrecv |-> 0]
Bytes(b, buffer, n) == [none |-> FALSE, data |-> b, buf |-> buffer, nrecv |-> n]

\* RemainderMsg with the first branch's cut in both branches.
RemainderMsgKeepDelim(rem) == SliceTo(rem, Find(rem) + 1)

\* receive(), lines 122-129: the result served from a non-empty remainder.
RemainderMsg(rem) ==
    LET i == Find(rem)
    IN  IF i # Len(rem) - 1 THEN SliceTo(rem, i + 1) ELSE SliceTo(rem, i)

RemainderRest(rem) ==
    LET i == Find(rem)
    IN  IF i # Len(rem) - 1 THEN SliceFrom(rem, i) ELSE <<>>

\* ReadMsg with the cut one byte late: the delimiter stays on the result.
ReadMsgKeepDelim(msg) == SliceTo(msg, Find(msg) + 1)

\* receive(), lines 134-137: the result cut from the accumulated msg.
ReadMsg(msg) ==
    LET i == Find(msg)
    IN  IF i # Len(msg) - 1 THEN SliceTo(msg, i) ELSE SliceTo(msg, Len(msg) - 1)

ReadRest(msg, rem) ==
    LET i == Find(msg)
    IN  IF i # Len(msg) - 1 THEN SliceFrom(msg, i + 1) ELSE rem

\* ---------------------------------------------------------- Entity._stage
OnReceive(m) == [hook |-> "on_receive", msg |-> m]
OnDisconnect == [hook |-> "on_disconnect", msg |-> <<>>]

\* StageEnds without the comparison with the sentinel.
StageEndsFalsy(r) == r.none \/ r.data = <<>>

\* `not msg or msg == b"disconnect"`: None and b"" are both falsy.
StageEnds(r) == r.none \/ r.data = <<>> \/ r.data = DISCONNECT

\* Return with the `return` of line 197 dropped: _stage calls on_disconnect
\* and close() and then goes round the loop again.
ReturnKeepsLooping(e, r) ==
    /\ received' = [received EXCEPT ![e] = Append(@, r)]
    /\ rpc' = [rpc EXCEPT ![e] = "idle"]
    /\ acc' = [acc EXCEPT ![e] = <<>>]
    /\ reads' = [reads EXCEPT ![e] = 0]
    /\ IF stagePc = "off" \/ e # "local"
       THEN /\ log' = [log EXCEPT ![e] = [n |-> @.n + 1, op |-> "receive", exc |-> "none"]]
            /\ UNCHANGED <<sock, stagePc, calls>>
       ELSE IF r.none \/ r.data = <<>> \/ r.data = DISCONNECT
            THEN /\ calls' = Append(calls, [hook |-> "on_disconnect", msg |-> <<>>])
                 /\ sock' = [sock EXCEPT ![e] = "closed"]
                 /\ log' = [log EXCEPT ![e] = [n |-> @.n + 2, op |-> "close", exc |-> "none"]]
                 /\ UNCHANGED stagePc
            ELSE /\ calls' = Append(calls, [hook |-> "on_receive", msg |-> r.data])
                 /\ log' = [log EXCEPT ![e] = [n |-> @.n + 1, op |-> "receive", exc |-> "none"]]
                 /\ UNCHANGED <<sock, stagePc>>

\* receive() returns r on end e. Called directly, the result goes to the
\* caller; called by Entity._stage, the loop body runs on it.
Return(e, r) ==
    /\ received' = [received EXCEPT ![e] = Append(@, r)]
    /\ rpc' = [rpc EXCEPT ![e] = "idle"]
    /\ acc' = [acc EXCEPT ![e] = <<>>]
    /\ reads' = [reads EXCEPT ![e] = 0]
    /\ IF stagePc = "off" \/ e # "local"
       THEN /\ Logged(e, "receive", "none")
            /\ UNCHANGED <<sock, stagePc, calls>>
       ELSE IF StageEnds(r)
            THEN /\ calls' = Append(calls, OnDisconnect)
                 /\ sock' = [sock EXCEPT ![e] = "closed"]
                 /\ log' = [log EXCEPT ![e] = Call(@.n + 2, "close", "none")]
                 /\ stagePc' = "terminated"
            ELSE /\ calls' = Append(calls, OnReceive(r.data))
                 /\ Logged(e, "receive", "none")
                 /\ UNCHANGED <<sock, stagePc>>

CanReceive(e) ==
    /\ Len(received[e]) < MaxReceives
    /\ e = "local" => stagePc # "terminated"

\* receive() with a non-empty remainder: lines 122-129, no socket access.
ReceiveRemainder(e) ==
    /\ rpc[e] = "idle"
    /\ CanReceive(e)
    /\ remainder[e] # <<>>
    /\ remainder' = [remainder EXCEPT ![e] = RemainderRest(@)]
    /\ Return(e, Bytes(RemainderMsg(remainder[e]), <<>>, 0))
    /\ UNCHANGED <<wire, sent>>
    /\ UNCHANGED svcVars

\* receive() with an empty remainder: line 131, msg = b"".
ReceiveEnter(e) ==
    /\ rpc[e] = "idle"
    /\ CanReceive(e)
    /\ remainder[e] = <<>>
    /\ rpc' = [rpc EXCEPT ![e] = "reading"]
    /\ acc' = [acc EXCEPT ![e] = <<>>]
    /\ reads' = [reads EXCEPT ![e] = 0]
    /\ UNCHANGED <<sock, remainder, wire, sent, received, log, stagePc, calls>>
    /\ UNCHANGED svcVars

\* One pass of the while loop, lines 132-133: recv() hands over the first k
\* bytes in flight (1 <= k <= chunk_size). When msg then ends with the
\* delimiter the loop exits and lines 134-137 cut the result.
Recv(e, k) ==
    /\ rpc[e] = "reading"
    /\ ~closed(e)
    /\ k \in 1..Min(DefaultChunkSize, Len(wire[e]))
    /\ LET msg == acc[e] \o SubSeq(wire[e], 1, k)
       IN  /\ wire' = [wire EXCEPT ![e] = SubSeq(@, k + 1, Len(@))]
           /\ IF EndsWithDelim(msg)
              THEN /\ remainder' = [remainder EXCEPT ![e] = ReadRest(msg, @)]
                   /\ Return(e, Bytes(ReadMsg(msg), msg, reads[e] + 1))
              ELSE /\ acc' = [acc EXCEPT ![e] = msg]
                   /\ reads' = [reads EXCEPT ![e] = @ + 1]
                   /\ UNCHANGED <<sock, remainder, rpc, received, log, stagePc, calls>>
    /\ UNCHANGED sent
    /\ UNCHANGED svcVars

\* recv() at end of stream: the other end closed and nothing is in flight, so
\* recv() returns b"", msg is unchanged and the while loop goes round again.
RecvEOF(e) ==
    /\ rpc[e] = "reading"
    /\ ~closed(e)
    /\ closed(Other(e))
    /\ wire[e] = <<>>
    /\ UNCHANGED vars

\* recv() raises OSError (a transport failure): line 138 turns it into None.
RecvFail(e) ==
    /\ rpc[e] = "reading"
    /\ ~closed(e)
    /\ Return(e, None)
    /\ UNCHANGED <<remainder, wire, sent>>
    /\ UNCHANGED svcVars

\* RecvNotOpen without the except of line 138: the IOError reaches the caller.
RecvNotOpenRaises(e) ==
    /\ rpc[e] = "reading"
    /\ sock[e] = "closed"
    /\ rpc' = [rpc EXCEPT ![e] = "idle"]
    /\ acc' = [acc EXCEPT ![e] = <<>>]
    /\ reads' = [reads EXCEPT ![e] = 0]
    /\ log' = [log EXCEPT ![e] = [n |-> @.n + 1, op |-> "receive", exc |-> "IOError"]]
    /\ UNCHANGED <<sock, remainder, wire, sent, received, stagePc, calls>>
    /\ UNCHANGED <<entity, lock, mainThread, spc, par, err, late, active, created,
                   launched, runs, failed, onFail, died>>

\* _require_open_socket() raises IOError on a closed socket: None again.
RecvNotOpen(e) ==
    /\ rpc[e] = "reading"
    /\ closed(e)
    /\ Return(e, None)
    /\ UNCHANGED <<remainder, wire, sent>>
    /\ UNCHANGED svcVars

\* ------------------------------------------------------- Connection.close
\* Close that records the call and leaves the descriptor as it was.
CloseKeepsDescriptor(e) ==
    /\ log[e].n < MaxCalls
    /\ log' = [log EXCEPT ![e] = [n |-> @.n + 1, op |-> "close", exc |-> "none"]]
    /\ UNCHANGED <<sock, remainder, wire, rpc, acc, reads, sent, received, stagePc, calls>>
    /\ UNCHANGED <<entity, lock, mainThread, spc, par, err, late, active, created,
                   launched, runs, failed, onFail, died>>

\* Close with _require_open_socket()'s default, mandatory=True: IOError on a
\* socket that is closed already.
CloseMandatory(e) ==
    /\ log[e].n < MaxCalls
    /\ sock' = [sock EXCEPT ![e] = "closed"]
    /\ log' = [log EXCEPT ![e] =
                  [n |-> @.n + 1, op |-> "close",
                   exc |-> IF sock[e] = "closed" THEN "IOError" ELSE "none"]]
    /\ UNCHANGED <<remainder, wire, rpc, acc, reads, sent, received, stagePc, calls>>
    /\ UNCHANGED <<entity, lock, mainThread, spc, par, err, late, active, created,
                   launched, runs, failed, onFail, died>>

\* close(), line 159: _require_open_socket(False) hands over the socket
\* whatever its state, and socket.close() on a closed socket does nothing.
Close(e) ==
    /\ log[e].n < MaxCalls
    /\ sock' = [sock EXCEPT ![e] = "closed"]
    /\ Logged(e, "close", "none")
    /\ UNCHANGED <<remainder, wire, rpc, acc, reads, sent, received, stagePc, calls>>
    /\ UNCHANGED svcVars

\* Send without _require_open_socket(): it writes on a closed socket too.
SendUnchecked(e, m) ==
    /\ Len(sent[e]) < MaxSends
    /\ wire' = [wire EXCEPT ![Other(e)] = @ \o m \o <<Delim>>]
    /\ sent' = [sent EXCEPT ![e] = Append(@, m)]
    /\ sock' = IF m = DISCONNECT THEN [sock EXCEPT ![e] = "closed"] ELSE sock
    /\ log' = [log EXCEPT ![e] = [n |-> @.n + 1, op |-> "send", exc |-> "none"]]
    /\ UNCHANGED <<remainder, rpc, acc, reads, received, stagePc, calls>>
    /\ UNCHANGED <<entity, lock, mainThread, spc, par, err, late, active, created,
                   launched, runs, failed, onFail, died>>

\* Send without lines 146-147: the sentinel is written and the socket kept.
SendNoClose(e, m) ==
    /\ sock[e] # "closed"
    /\ Len(sent[e]) < MaxSends
    /\ wire' = [wire EXCEPT ![Other(e)] = @ \o m \o <<Delim>>]
    /\ sent' = [sent EXCEPT ![e] = Append(@, m)]
    /\ log' = [log EXCEPT ![e] = [n |-> @.n + 1, op |-> "send", exc |-> "none"]]
    /\ UNCHANGED <<sock, remainder, rpc, acc, reads, received, stagePc, calls>>
    /\ UNCHANGED <<entity, lock, mainThread, spc, par, err, late, active, created,
                   launched, runs, failed, onFail, died>>

\* -------------------------------------------------------- Connection.send
\* send(msg) on an open socket: msg + b";" goes out as one write; the
\* sentinel then closes the local socket.
Send(e, m) ==
    /\ ~closed(e)
    /\ Len(sent[e]) < MaxSends
    /\ wire' = [wire EXCEPT ![Other(e)] = @ \o m \o <<Delim>>]
    /\ sent' = [sent EXCEPT ![e] = Append(@, m)]
    /\ sock' = IF m = DISCONNECT THEN [sock EXCEPT ![e] = "closed"] ELSE sock
    /\ Logged(e, "send", "none")
    /\ UNCHANGED <<remainder, rpc, acc, reads, received, stagePc, calls>>
    /\ UNCHANGED svcVars

\* send(msg) on a closed socket, line 145: _require_open_socket() raises
\* IOError before anything is written, and send() lets it through.
SendNotOpen(e, m) ==
    /\ closed(e)
    /\ log[e].n < MaxCalls
    /\ Logged(e, "send", "IOError")
    /\ UNCHANGED <<sock, remainder, wire, rpc, acc, reads, sent, received, stagePc, calls>>
    /\ UNCHANGED svcVars

\* closed(), line 105: a query of the socket's descriptor.
ClosedReturned(b) == IF b THEN "closed=True" ELSE "closed=False"

CallClosed(e) ==
    /\ log[e].n < MaxCalls
    /\ Logged(e, ClosedReturned(closed(e)), "none")
    /\ UNCHANGED <<sock, remainder, wire, rpc, acc, reads, sent, received, stagePc, calls>>
    /\ UNCHANGED svcVars

\* -------------------------------------------------- Connection.disconnect
Disconnect(e) == Send(e, DISCONNECT)

\* ================================================================== Service
\* Each caller makes one start() call on the one Service instance, from a
\* thread of its own or after an earlier call has ended.
Callers == 1..NCallers
\* The thread _register_process creates.
Worker == 0

\* How run() ends: it returns, or an Exception escapes it.
Outcomes == {"ok", "error"}

\* Service._run, line 36: whatever run() raises goes on to the caller of _run.
ServiceRun(o) == [raises |-> o = "error", onFail |-> 0]

\* EntityRun without the try/except: Service._run's behaviour.
EntityRunNoCatch(o) == [raises |-> o = "error", onFail |-> 0]

\* Entity._run, lines 200-204: an Exception is handed to on_fail and dropped.
EntityRun(o) == [raises |-> FALSE, onFail |-> IF o = "error" THEN 1 ELSE 0]

Run(o) == IF entity THEN EntityRun(o) ELSE ServiceRun(o)

BeginCall(c, p) ==
    /\ spc[c] = "idle"
    /\ par' = [par EXCEPT ![c] = p]
    /\ late' = [late EXCEPT ![c] = \E d \in Callers : spc[d] = "returned"]

\* StartSync handing run() to the background and returning at once.
StartSyncDetached(c) ==
    /\ spc[c] = "idle"
    /\ par' = [par EXCEPT ![c] = FALSE]
    /\ late' = [late EXCEPT ![c] = \E d \in Callers : spc[d] = "returned"]
    /\ spc' = [spc EXCEPT ![c] = "returned"]
    /\ active' = active \cup {c}
    /\ runs' = runs + 1
    /\ UNCHANGED <<entity, lock, mainThread, err, created, launched, failed, onFail, died>>
    /\ UNCHANGED <<sock, remainder, wire, rpc, acc, reads, sent, received, log,
                   stagePc, calls>>

\* start(parallel=False), line 75: _run() on the calling thread.
StartSync(c) ==
    /\ BeginCall(c, FALSE)
    /\ spc' = [spc EXCEPT ![c] = "running"]
    /\ active' = active \cup {c}
    /\ runs' = runs + 1
    /\ UNCHANGED <<entity, lock, mainThread, err, created, launched, failed, onFail, died>>
    /\ UNCHANGED <<connVars, stageVars>>

\* run() ends on the calling thread and start(parallel=False) returns or raises.
SyncEnd(c, o) ==
    /\ spc[c] = "running"
    /\ active' = active \ {c}
    /\ failed' = IF o = "error" THEN failed + 1 ELSE failed
    /\ onFail' = onFail + Run(o).onFail
    /\ IF Run(o).raises
       THEN /\ spc' = [spc EXCEPT ![c] = "raised"]
            /\ err' = [err EXCEPT ![c] = "Exception"]
       ELSE /\ spc' = [spc EXCEPT ![c] = "returned"]
            /\ UNCHANGED err
    /\ UNCHANGED <<entity, lock, mainThread, par, late, created, launched, runs, died>>
    /\ UNCHANGED <<connVars, stageVars>>

\* start(parallel=True), line 73: on to _register_process and its acquire().
StartParallel(c) ==
    /\ BeginCall(c, TRUE)
    /\ spc' = [spc EXCEPT ![c] = "acquire"]
    /\ UNCHANGED <<entity, lock, mainThread, err, active, created, launched, runs,
                   failed, onFail, died>>
    /\ UNCHANGED <<connVars, stageVars>>

\* _register_process, lines 44-50, once acquire() gets the lock. The raise of
\* line 46 stands before the try, so it leaves with the lock held; the
\* finally of line 50 releases it after the Thread object is made.
RegisterProcess(c) ==
    /\ spc[c] = "acquire"
    /\ lock = 0
    /\ IF mainThread # 0
       THEN /\ lock' = c
            /\ spc' = [spc EXCEPT ![c] = "raised"]
            /\ err' = [err EXCEPT ![c] = "AlreadyRunning"]
            /\ UNCHANGED <<mainThread, created>>
       ELSE /\ mainThread' = c
            /\ created' = created + 1
            /\ spc' = [spc EXCEPT ![c] = "registered"]
            /\ UNCHANGED <<lock, err>>
    /\ UNCHANGED <<entity, par, late, active, launched, runs, failed, onFail, died>>
    /\ UNCHANGED <<connVars, stageVars>>

\* _parallel_run, line 59: self._main_thread.start(); the worker enters _run.
ThreadStart(c) ==
    /\ spc[c] = "registered"
    /\ launched' = launched + 1
    /\ active' = active \cup {Worker}
    /\ runs' = runs + 1
    /\ spc' = [spc EXCEPT ![c] = "started"]
    /\ UNCHANGED <<entity, lock, mainThread, par, err, late, created, failed, onFail, died>>
    /\ UNCHANGED <<connVars, stageVars>>

\* start(parallel=True) returns self; nothing joins the worker.
ParallelReturn(c) ==
    /\ spc[c] = "started"
    /\ spc' = [spc EXCEPT ![c] = "returned"]
    /\ UNCHANGED <<entity, lock, mainThread, par, err, late, active, created, launched,
                   runs, failed, onFail, died>>
    /\ UNCHANGED <<connVars, stageVars>>

\* run() ends on the worker thread.
WorkerEnd(o) ==
    /\ Worker \in active
    /\ active' = active \ {Worker}
    /\ failed' = IF o = "error" THEN failed + 1 ELSE failed
    /\ onFail' = onFail + Run(o).onFail
    /\ died' = Run(o).raises
    /\ UNCHANGED <<entity, lock, mainThread, spc, par, err, late, created, launched, runs>>
    /\ UNCHANGED <<connVars, stageVars>>

\* Service.__init__, lines 16-19, and no start() call made yet.
ServiceInit ==
    /\ lock = 0
    /\ mainThread = 0
    /\ spc = [c \in Callers |-> "idle"]
    /\ par = [c \in Callers |-> FALSE]
    /\ err = [c \in Callers |-> "none"]
    /\ late = [c \in Callers |-> FALSE]
    /\ active = {}
    /\ created = 0
    /\ launched = 0
    /\ runs = 0
    /\ failed = 0
    /\ onFail = 0
    /\ died = FALSE

\* ----------------------------------------------------------------- Init
ConnInit ==
    /\ sock = [e \in Ends |-> "open"]
    /\ remainder = [e \in Ends |-> <<>>]
    /\ wire = [e \in Ends |-> <<>>]
    /\ rpc = [e \in Ends |-> "idle"]
    /\ acc = [e \in Ends |-> <<>>]
    /\ reads = [e \in Ends |-> 0]
    /\ sent = [e \in Ends |-> <<>>]
    /\ received = [e \in Ends |-> <<>>]
    /\ log = [e \in Ends |-> NoCall]
    /\ calls = <<>>
    /\ ServiceInit

\* A connection whose local end is read by direct receive() calls.
Init ==
    /\ ConnInit
    /\ entity = FALSE
    /\ stagePc = "off"

\* receive() while every socket read succeeds.
Receive(e) ==
    \/ ReceiveRemainder(e)
    \/ ReceiveEnter(e)
    \/ \E k \in 1..Len(wire[e]) : Recv(e, k)
    \/ RecvEOF(e)

Next ==
    \/ \E m \in Payloads : Send("peer", m)
    \/ Disconnect("peer")
    \/ Receive("local")

Spec == Init /\ [][Next]_vars

\* A connection whose local end is read by Entity._stage, over a transport
\* that can fail and a peer that can go away without the sentinel.
InitStage ==
    /\ ConnInit
    /\ entity = TRUE
    /\ stagePc = "receiving"

NextStage ==
    \/ \E m \in Payloads : Send("peer", m)
    \/ Disconnect("peer")
    \/ Close("peer")
    \/ Receive("local")
    \/ RecvFail("local")

SpecStage == InitStage /\ [][NextStage]_vars

\* The thread running Entity._stage keeps running: receive() takes every
\* step it can. What the peer and the transport do is not promised.
SpecStageFair == SpecStage /\ WF_vars(Receive("local"))

\* A connection whose local end is driven through its whole interface
\* (receive, send, close, closed) over a transport that can fail, the local
\* Connection made with or without leftover bytes.
PeerPayloads == {<<>>, <<"a">>}
LocalPayloads == {<<"a">>, DISCONNECT}
Seeds == {<<>>, <<"a", Delim>>, <<"a", Delim, "a", Delim>>}

InitApi ==
    /\ sock = [e \in Ends |-> "open"]
    /\ remainder \in {[e \in Ends |-> IF e = "local" THEN r ELSE <<>>] : r \in Seeds}
    /\ wire = [e \in Ends |-> <<>>]
    /\ rpc = [e \in Ends |-> "idle"]
    /\ acc = [e \in Ends |-> <<>>]
    /\ reads = [e \in Ends |-> 0]
    /\ sent = [e \in Ends |-> <<>>]
    /\ received = [e \in Ends |-> <<>>]
    /\ log = [e \in Ends |-> NoCall]
    /\ calls = <<>>
    /\ ServiceInit
    /\ entity = FALSE
    /\ stagePc = "off"

NextApi ==
    \/ \E m \in PeerPayloads : Send("peer", m)
    \/ Close("peer")
    \/ Receive("local")
    \/ RecvFail("local")
    \/ RecvNotOpen("local")
    \/ \E m \in LocalPayloads : Send("local", m)
    \/ \E m \in LocalPayloads : SendNotOpen("local", m)
    \/ Close("local")
    \/ CallClosed("local")

SpecApi == InitApi /\ [][NextApi]_vars

\* A service, bare or an Entity, and the start() calls made on it.
InitService ==
    /\ ConnInit
    /\ entity \in BOOLEAN
    /\ stagePc = "off"

NextService ==
    \/ \E c \in Callers : StartSync(c)
    \/ \E c \in Callers, o \in Outcomes : SyncEnd(c, o)
    \/ \E c \in Callers : StartParallel(c)
    \/ \E c \in Callers : RegisterProcess(c)
    \/ \E c \in Callers : ThreadStart(c)
    \/ \E c \in Callers : ParallelReturn(c)
    \/ \E o \in Outcomes : WorkerEnd(o)

SpecService == InitService /\ [][NextService]_vars

\* ===================================================================== claims
\* The payloads of a buffer of delimiter-terminated frames, in order.
RECURSIVE Frames(_)
Frames(buf) ==
    IF buf = <<>> THEN <<>>
    ELSE LET i == Find(buf)
         IN  IF i = -1 THEN <<buf>>
             ELSE <<SubSeq(buf, 1, i)>> \o Frames(SubSeq(buf, i + 2, Len(buf)))

IsPrefix(a, b) == Len(a) <= Len(b) /\ \A k \in 1..Len(a) : a[k] = b[k]

Rcv == received["local"]

\* C1: once a receive() has obtained N framed payloads from the socket (its
\* accumulated buffer holds N frames, in whatever chunks they came), that call
\* and the N - 1 calls after it return the N payloads one per call in arrival
\* order, and after the N-th of them the leftover buffer is empty (the drain
\* is over).
C1_DrainTakesNCalls ==
    \A i \in 1..Len(Rcv) :
        Rcv[i].buf # <<>> =>
            LET F == Frames(Rcv[i].buf)
                N == Len(F)
            IN  /\ \A j \in 0..(N - 1) :
                       i + j <= Len(Rcv) =>
                           ~Rcv[i + j].none /\ Rcv[i + j].data = F[j + 1]
                /\ Len(Rcv) = i + N - 1 => remainder["local"] = <<>>

\* C2: a receive() that starts with an empty leftover buffer (its result is
\* cut from bytes read from the socket, in one recv() or many) returns exactly
\* the payload the other end passed to the matching send().
C2_SendReceiveRoundTrip ==
    \A i \in 1..Len(Rcv) :
        Rcv[i].buf # <<>> =>
            /\ ~Rcv[i].none
            /\ i <= Len(sent["peer"])
            /\ Rcv[i].data = sent["peer"][i]

\* A payload sent whole came back from a receive() that needed several reads.
C2_Witness ==
    \E i \in 1..Len(Rcv) :
        /\ Rcv[i].nrecv >= 2
        /\ Rcv[i].data = PING
        /\ sent["peer"][i] = PING

PingPongBytes == PING \o <<Delim>> \o PONG \o <<Delim>>

\* C3: when the bytes PING;PONG; arrive in a single read, that receive()
\* returns PING, the next receive() returns PONG, and the leftover buffer is
\* then empty.
C3_PingPongOneRead ==
    \A i \in 1..Len(Rcv) :
        (Rcv[i].buf = PingPongBytes /\ Rcv[i].nrecv = 1) =>
            /\ ~Rcv[i].none /\ Rcv[i].data = PING
            /\ Len(Rcv) > i =>
                   /\ ~Rcv[i + 1].none /\ Rcv[i + 1].data = PONG
                   /\ Len(Rcv) = i + 1 => remainder["local"] = <<>>

\* Both calls have returned after the single read of PING;PONG;.
C3_Witness ==
    \E i \in 1..Len(Rcv) :
        /\ Rcv[i].buf = PingPongBytes
        /\ Rcv[i].nrecv = 1
        /\ Len(Rcv) = i + 1
        /\ Rcv[i + 1].data = PONG
        /\ remainder["local"] = <<>>

\* The messages on_receive was invoked with, in order.
RECURSIVE Delivered(_)
Delivered(cs) ==
    IF cs = <<>> THEN <<>>
    ELSE IF cs[1].hook = "on_receive"
         THEN <<cs[1].msg>> \o Delivered(Tail(cs))
         ELSE Delivered(Tail(cs))

\* The frames a sender wrote before its disconnect.
RECURSIVE BeforeDisconnect(_)
BeforeDisconnect(ps) ==
    IF ps = <<>> \/ ps[1] = DISCONNECT THEN <<>>
    ELSE <<ps[1]>> \o BeforeDisconnect(Tail(ps))

\* C4: the messages passed to on_receive are, in order, the frames the peer
\* wrote before its disconnect: at every moment a prefix of them, none
\* altered, duplicated or out of place.
C4_DeliveredInOrder ==
    IsPrefix(Delivered(calls), BeforeDisconnect(sent["peer"]))

\* C5: a start() call made after an earlier start() has returned fails with
\* the already-running error whatever the two parallel flags are: it never
\* gets to run the workflow, to register a thread or to return normally.
C5_SecondStartFails ==
    \A c \in Callers :
        late[c] =>
            /\ spc[c] \in {"acquire", "raised"}
            /\ spc[c] = "raised" => err[c] = "AlreadyRunning"

\* C6: under concurrent start(parallel=True) calls at most one Thread object
\* is created and launched, by the one caller that registered it, and every
\* other caller gets the already-running error: none of them is left waiting
\* for a mutex that is never released.
C6_FirstWriterWins ==
    /\ created <= 1
    /\ launched <= 1
    /\ \A c \in Callers :
           spc[c] \in {"registered", "started"} => mainThread = c
    /\ \A c \in Callers :
           (spc[c] = "raised" /\ par[c]) => err[c] = "AlreadyRunning"
    /\ \A c \in Callers : spc[c] = "acquire" => lock = 0

NumDisconnects == Cardinality({k \in 1..Len(calls) : calls[k].hook = "on_disconnect"})

\* C7: when the dispatch loop reads the payload "disconnect" it invokes
\* on_disconnect exactly once, as its last callback, closes its connection and
\* stops; on_receive is never invoked with that payload.
C7_SentinelEndsStage ==
    /\ \A k \in 1..Len(calls) : calls[k] # OnReceive(DISCONNECT)
    /\ \A i \in 1..Len(Rcv) :
           (~Rcv[i].none /\ Rcv[i].data = DISCONNECT) =>
               /\ i = Len(Rcv)
               /\ stagePc = "terminated"
               /\ closed("local")
               /\ NumDisconnects = 1
               /\ calls[Len(calls)] = OnDisconnect

\* The loop delivered a message and then ended on the sentinel.
C7_Witness ==
    /\ Len(Rcv) >= 2
    /\ Rcv[Len(Rcv)].data = DISCONNECT
    /\ stagePc = "terminated"
    /\ calls = <<OnReceive(PING), OnDisconnect>>

\* C8: a send() of the sentinel (disconnect() is that send) leaves the
\* sender's socket closed; a send() of any other payload leaves the socket's
\* open/closed state as it was.
C8_SentinelClosesSender ==
    [][\A e \in Ends :
           sent'[e] # sent[e] =>
               IF sent'[e][Len(sent'[e])] = DISCONNECT
               THEN sock'[e] = "closed"
               ELSE sock'[e] = sock[e]]_vars

\* The peer sent a payload, stayed open, then sent the sentinel and is closed.
C8_Witness ==
    /\ sent["peer"] = <<PING, DISCONNECT>>
    /\ closed("peer")

\* C9: on an Entity every exception that escapes run() is reported by one
\* on_fail call and goes no further: no start(parallel=False) call raises it
\* and it does not end the worker thread.
C9_EntityReportsFailure ==
    entity =>
        /\ onFail = failed
        /\ \A c \in Callers : err[c] # "Exception"
        /\ ~died

\* run() has failed on the worker thread and on a caller's thread, and that
\* caller's start() has returned.
C9_Witness ==
    /\ entity
    /\ failed = 2
    /\ runs = 2
    /\ launched = 1
    /\ active = {}
    /\ \E c \in Callers : ~par[c] /\ spc[c] = "returned"

\* C10: a start(parallel=False) call has not ended, by return or raise, while
\* its run() is still going; a start(parallel=True) call that has launched the
\* worker can return whatever the worker is doing.
C10_SyncBlocksParallelReturns ==
    /\ \A c \in Callers :
           (~par[c] /\ spc[c] \in {"returned", "raised"}) => c \notin active
    /\ \A c \in Callers : spc[c] = "started" => ENABLED ParallelReturn(c)

\* A start(parallel=True) call has returned and the worker is still in run();
\* a start(parallel=False) call has returned too.
C10_Witness ==
    /\ \E c \in Callers : par[c] /\ spc[c] = "returned" /\ Worker \in active
    /\ \E c \in Callers : ~par[c] /\ spc[c] = "returned"

\* A call of op completes on end e in this step.
Completes(e, op) == log'[e].n > log[e].n /\ log'[e].op = op

LastOf(seq) == seq[Len(seq)]

\* C11: a receive() call never raises. One that is in its read loop and ends
\* on a closed socket, or ends without having taken its bytes from the socket
\* (the read failed), returns None.
C11_ReceiveNeverRaises ==
    [][\A e \in Ends :
           Completes(e, "receive") =>
               /\ log'[e].exc = "none"
               /\ Len(received'[e]) = Len(received[e]) + 1
               /\ (rpc[e] = "reading" /\ (closed(e) \/ wire'[e] = wire[e])) =>
                      LastOf(received'[e]).none]_vars

\* receive() has returned None on a closed socket, with nothing raised.
C11_Witness ==
    /\ closed("local")
    /\ log["local"].op = "receive"
    /\ log["local"].exc = "none"
    /\ Len(Rcv) > 0
    /\ LastOf(Rcv).none

\* C12: a send() on a connection whose socket is closed raises the
\* socket-not-open error (IOError) and transmits nothing.
C12_SendOnClosedRaises ==
    [][\A e \in Ends :
           (closed(e) /\ Completes(e, "send")) =>
               /\ log'[e].exc = "IOError"
               /\ wire' = wire
               /\ sent' = sent]_vars

\* A send() after disconnect() has raised.
C12_Witness ==
    /\ sent["local"] = <<DISCONNECT>>
    /\ log["local"] = Call(2, "send", "IOError")
    /\ wire["peer"] = DISCONNECT \o <<Delim>>

\* C13: closed() is false on a new connection; a close() call leaves it true;
\* once true it stays true under every later call; and a closed() call
\* returns the socket's state and changes nothing.
C13_ClosedIsStable ==
    /\ \A e \in Ends : ~closed(e)
    /\ [][\A e \in Ends :
              /\ closed(e) => sock'[e] = "closed"
              /\ Completes(e, "close") => sock'[e] = "closed"
              /\ Completes(e, "closed=True") => (closed(e) /\ sock' = sock)
              /\ Completes(e, "closed=False") => (~closed(e) /\ sock' = sock)]_vars

\* closed() has answered True as the last of several calls.
C13_Witness ==
    /\ log["local"] = Call(MaxCalls, "closed=True", "none")
    /\ Len(Rcv) > 0
    /\ closed("local")

\* C14: close() on a connection that is closed already raises nothing and
\* leaves the connection as it was.
C14_CloseTwice ==
    [][\A e \in Ends :
           (closed(e) /\ Completes(e, "close")) =>
               /\ log'[e].exc = "none"
               /\ UNCHANGED <<sock, remainder, wire, rpc, acc, reads, sent, received>>]_vars

\* close() has returned on a connection that disconnect() had closed before.
C14_Witness ==
    /\ sent["local"] = <<DISCONNECT>>
    /\ log["local"] = Call(2, "close", "none")
    /\ closed("local")

\* C15: a receive() served from a leftover buffer whose first delimiter is
\* not its last byte returns the bytes before that delimiter and keeps the
\* bytes after it: the leftover shrinks and the result holds no delimiter.
C15_RemainderSplit ==
    [][\A e \in Ends :
           LET rem == remainder[e]
               i == Find(rem)
           IN  (/\ rpc[e] = "idle"
                /\ rem # <<>>
                /\ i # -1
                /\ i # Len(rem) - 1
                /\ Len(received'[e]) = Len(received[e]) + 1) =>
                   /\ LastOf(received'[e]).data = SubSeq(rem, 1, i)
                   /\ remainder'[e] = SubSeq(rem, i + 2, Len(rem))]_vars

\* C16: the dispatch loop ends only on a None or on the sentinel; every other
\* frame, the empty one included, goes to on_receive and the loop goes on.
C16_StageEndsOnlyOnNoneOrSentinel ==
    /\ stagePc = "terminated" =>
           (LastOf(Rcv).none \/ LastOf(Rcv).data = DISCONNECT)
    /\ \A i \in 1..Len(Rcv) :
           (~Rcv[i].none /\ Rcv[i].data # DISCONNECT) =>
               \E k \in 1..Len(calls) : calls[k] = OnReceive(Rcv[i].data)

\* C17: once the peer has closed the stream and receive() is reading with no
\* byte in flight and no frame buffered, receive() returns and the dispatch
\* loop reaches its terminated state.
C17_EOFEndsStage ==
    [](( /\ stagePc = "receiving"
         /\ rpc["local"] = "reading"
         /\ closed("peer")
         /\ wire["local"] = <<>> )
       => <>(stagePc = "terminated"))

\* C18: in a run of the dispatch loop on_disconnect is invoked at most once
\* and is the last callback, the connection is closed once the loop has
\* ended, and a None from receive() ends the loop.
C18_StageTerminal ==
    /\ NumDisconnects <= 1
    /\ NumDisconnects = 1 => (LastOf(calls) = OnDisconnect /\ stagePc = "terminated")
    /\ stagePc = "terminated" => (closed("local") /\ NumDisconnects = 1)
    /\ \A i \in 1..Len(Rcv) :
           Rcv[i].none => (i = Len(Rcv) /\ stagePc = "terminated")

\* The loop delivered a message and then ended on a None.
C18_Witness ==
    /\ Len(Rcv) = 2
    /\ Rcv[2].none
    /\ calls = <<OnReceive(PING), OnDisconnect>>
    /\ stagePc = "terminated"
    /\ closed("local")

\* C19: a start() call that failed with the already-running error has left
\* the thread handle as it was and the mutex free.
C19_FailedStartReleases ==
    \A c \in Callers :
        err[c] = "AlreadyRunning" =>
            /\ mainThread # 0
            /\ mainThread # c
            /\ lock # c

\* C20: the leftover buffer of a Connection made with none, or with one that
\* ends with the delimiter, is always empty or ends with the delimiter, and
\* no send() or close() call changes it.
C20_RemainderShape ==
    /\ [](\A e \in Ends :
              remainder[e] = <<>> \/ LastOf(remainder[e]) = Delim)
    /\ [][\A e \in Ends :
              (Completes(e, "send") \/ Completes(e, "close")) =>
                  remainder' = remainder]_vars

\* A send() has completed while frames were left over from an earlier read.
C20_Witness ==
    /\ log["local"].op = "send"
    /\ Len(Rcv) > 0
    /\ Rcv[1].buf # <<>>
    /\ Len(remainder["local"]) >= 2

====
